---- MODULE Spec2Model ----
(***************************************************************************)
(* The /api/search request handler of src/src/index.ts: validation,        *)
(* structured-query extraction, embedding search with threshold and        *)
(* fallback, adjudication with defensive parsing, audit save, response;    *)
(* and the lazily loaded process-wide embedding model.                     *)
(*                                                                         *)
(* Every `await` of the handler is a step boundary: one action per         *)
(* continuation, so concurrent requests interleave exactly where the       *)
(* event loop lets them.                                                   *)
(***************************************************************************)
EXTENDS Integers, Sequences, FiniteSets, TLC

\* ------------------------------------------------------------------ bounds
\* Request slots of the server (concurrent handlers at most).
NumRequests == 2
\* Largest embedded collection of the whole-pipeline specifications.
MaxFragments == 2
\* Largest embedded collection of the retrieval specification (above TOP_K).
MaxCollection == 7

\* ------------------------------------------------------- program constants
\* const MIN_SIMILARITY = 0.25, in hundredths (scores are kept in hundredths).
MIN_SIMILARITY == 25
TOP_K == 6

\* --------------------------------------------------------------- JS values
\* A JavaScript value as JSON.parse, req.body and the handler's locals hold it.
JUndefined == [t |-> "undefined"]
JNull == [t |-> "null"]
JBool(b) == [t |-> "bool", bool |-> b]
JNum(n) == [t |-> "num", num |-> n]
JStr(s) == [t |-> "str", str |-> s]
JArr(s) == [t |-> "arr", arr |-> s]
\* obj is a function from property names to values (a TLA+ record).
JObj(f) == [t |-> "obj", obj |-> f]
EmptyObj == JObj(<<>>)

\* o with property k set to v (a later duplicate key of a JSON text wins).
SetProp(o, k, v) ==
  JObj([x \in (DOMAIN o.obj) \cup {k} |-> IF x = k THEN v ELSE o.obj[x]])

\* v.k for a value v that is neither null nor undefined: own properties of an
\* object, undefined on a primitive or (for a non-index, non-length name) an array.
GetProp(v, k) ==
  IF v.t = "obj" /\ k \in DOMAIN v.obj THEN v.obj[k] ELSE JUndefined

\* !v
Falsy(v) ==
  \/ v.t \in {"undefined", "null"}
  \/ v.t = "bool" /\ ~v.bool
  \/ v.t = "num" /\ v.num = 0
  \/ v.t = "str" /\ v.str = ""

\* v.length === 0 for a truthy v
LengthIsZero(v) ==
  \/ v.t = "arr" /\ Len(v.arr) = 0
  \/ v.t = "obj" /\ GetProp(v, "length") = JNum(0)

\* ------------------------------------------------------------------- texts
\* A text is a sequence of units.  Ch(c) is the single character c;
\* StrLit(s) is a whole JSON string literal "s" (its characters between and
\* including the quotes); Kw(w) is a bare word (null, true, false or any
\* other word); Fence("json") is the
\* code-fence marker with its json tag and Fence("") the bare marker.
Ch(c) == <<"c", c>>
StrLit(s) == <<"s", s>>
Kw(w) == <<"k", w>>
Fence(f) == <<"f", f>>

Digits == {"0", "1", "2", "3", "4", "5", "6", "7", "8", "9"}
DigitVal(c) ==
  CASE c = "0" -> 0 [] c = "1" -> 1 [] c = "2" -> 2 [] c = "3" -> 3
    [] c = "4" -> 4 [] c = "5" -> 5 [] c = "6" -> 6 [] c = "7" -> 7
    [] c = "8" -> 8 [] c = "9" -> 9

IsWs(u) == u \in {Ch(" "), Ch("\n")}

\* txt.replace(/```json/g, '').replace(/```/g, '')
StripFences(txt) == SelectSeq(txt, LAMBDA u : u[1] # "f")

\* String.prototype.trim
RECURSIVE TrimLeft(_)
TrimLeft(txt) ==
  IF txt # <<>> /\ IsWs(Head(txt)) THEN TrimLeft(Tail(txt)) ELSE txt
RECURSIVE TrimRight(_)
TrimRight(txt) ==
  IF txt # <<>> /\ IsWs(txt[Len(txt)])
  THEN TrimRight(SubSeq(txt, 1, Len(txt) - 1)) ELSE txt
Trim(txt) == TrimRight(TrimLeft(txt))

\* txt.indexOf('{'), zero-based, -1 when there is none
IndexOf(txt, u) ==
  IF \E i \in 1..Len(txt) : txt[i] = u
  THEN (CHOOSE i \in 1..Len(txt) : txt[i] = u /\ \A j \in 1..(i - 1) : txt[j] # u) - 1
  ELSE -1

\* The double-quote and the backtick character, by name.
DQuote == Ch("dquote")
Backtick == Ch("backtick")

\* The last character of a unit: a string literal ends with its closing quote,
\* a fence marker with a backtick or the n of json, a word with a letter (no
\* letter alone is JSON, so one letter stands for all).
LastChar(u) ==
  CASE u[1] = "c" -> u
    [] u[1] = "s" -> DQuote
    [] u[1] = "k" -> Ch("e")
    [] OTHER -> IF u[2] = "json" THEN Ch("n") ELSE Backtick

\* txt.slice(start) for start >= -1: from start to the end, and for -1 the
\* last character of the text (the empty text when the text is empty).
Slice(txt, start) ==
  IF start >= 0 THEN SubSeq(txt, start + 1, Len(txt))
  ELSE IF txt = <<>> THEN <<>> ELSE <<LastChar(txt[Len(txt)])>>

\* ---------------------------------------------------------------- JSON.parse
ParseFail == [ok |-> FALSE, val |-> JUndefined, next |-> 0]
ParseOk(v, n) == [ok |-> TRUE, val |-> v, next |-> n]

RECURSIVE SkipWs(_, _)
SkipWs(t, i) == IF i <= Len(t) /\ IsWs(t[i]) THEN SkipWs(t, i + 1) ELSE i

IsDigit(t, i) == i <= Len(t) /\ t[i][1] = "c" /\ t[i][2] \in Digits

\* The digits from i on, as [val, next]; acc is the value so far.
RECURSIVE ParseDigits(_, _, _)
ParseDigits(t, i, acc) ==
  IF IsDigit(t, i) THEN ParseDigits(t, i + 1, 10 * acc + DigitVal(t[i][2]))
  ELSE ParseOk(JNum(acc), i)

RECURSIVE ParseValue(_, _)
RECURSIVE ParseMembers(_, _, _)
RECURSIVE ParseElements(_, _, _)

\* One JSON value starting at or after position i (whitespace skipped).
ParseValue(t, i) ==
  LET j == SkipWs(t, i) IN
  IF j > Len(t) THEN ParseFail
  ELSE
    LET u == t[j] IN
    CASE u[1] = "s" -> ParseOk(JStr(u[2]), j + 1)
      [] u[1] = "k" ->
           (CASE u[2] = "null" -> ParseOk(JNull, j + 1)
              [] u[2] = "true" -> ParseOk(JBool(TRUE), j + 1)
              [] u[2] = "false" -> ParseOk(JBool(FALSE), j + 1)
              [] OTHER -> ParseFail)
      [] IsDigit(t, j) ->
           \* no leading zero in a JSON number
           IF u[2] = "0" /\ IsDigit(t, j + 1) THEN ParseFail
           ELSE ParseDigits(t, j, 0)
      [] u = Ch("{") ->
           LET k == SkipWs(t, j + 1) IN
           IF k <= Len(t) /\ t[k] = Ch("}") THEN ParseOk(EmptyObj, k + 1)
           ELSE ParseMembers(t, k, EmptyObj)
      [] u = Ch("[") ->
           LET k == SkipWs(t, j + 1) IN
           IF k <= Len(t) /\ t[k] = Ch("]") THEN ParseOk(JArr(<<>>), k + 1)
           ELSE ParseElements(t, k, <<>>)
      [] OTHER -> ParseFail

\* "key" : value { , "key" : value } "}" from position i, added to acc.
ParseMembers(t, i, acc) ==
  LET j == SkipWs(t, i) IN
  IF j > Len(t) \/ t[j][1] # "s" THEN ParseFail
  ELSE
    LET c == SkipWs(t, j + 1) IN
    IF c > Len(t) \/ t[c] # Ch(":") THEN ParseFail
    ELSE
      LET v == ParseValue(t, c + 1) IN
      IF ~v.ok THEN ParseFail
      ELSE
        LET n == SkipWs(t, v.next)
            acc2 == SetProp(acc, t[j][2], v.val)
        IN
        IF n > Len(t) THEN ParseFail
        ELSE IF t[n] = Ch("}") THEN ParseOk(acc2, n + 1)
        ELSE IF t[n] = Ch(",") THEN ParseMembers(t, n + 1, acc2)
        ELSE ParseFail

\* value { , value } "]" from position i, appended to acc.
ParseElements(t, i, acc) ==
  LET v == ParseValue(t, i) IN
  IF ~v.ok THEN ParseFail
  ELSE
    LET n == SkipWs(t, v.next)
        acc2 == Append(acc, v.val)
    IN
    IF n > Len(t) THEN ParseFail
    ELSE IF t[n] = Ch("]") THEN ParseOk(JArr(acc2), n + 1)
    ELSE IF t[n] = Ch(",") THEN ParseElements(t, n + 1, acc2)
    ELSE ParseFail

\* JSON.parse(t): [ok |-> TRUE, val |-> v], or ok = FALSE where it throws
\* (no value, or anything but whitespace after the value).
JsonParse(t) ==
  LET r == ParseValue(t, 1) IN
  IF r.ok /\ SkipWs(t, r.next) > Len(t)
  THEN [ok |-> TRUE, val |-> r.val]
  ELSE [ok |-> FALSE, val |-> JUndefined]

\* ------------------------------------------------------------- similarity
\* sum over i < a.length of a[i] * b[i]
RECURSIVE DotUpTo(_, _, _)
DotUpTo(a, b, n) == IF n = 0 THEN 0 ELSE DotUpTo(a, b, n - 1) + a[n] * b[n]

\* cosine(a, b) = dot / (sqrt(na) * sqrt(nb) + 1e-10), in hundredths rounded
\* toward zero.  The 1e-10 decides the value only when a vector is zero
\* (0 / 1e-10 = 0); elsewhere it is below the hundredths kept here.
cosine(a, b) ==
  LET dot == DotUpTo(a, b, Len(a))
      na == DotUpTo(a, a, Len(a))
      nb == DotUpTo(b, b, Len(a))
      mag == CHOOSE s \in 0..100 :
               /\ s * s * na * nb <= 10000 * dot * dot
               /\ (s + 1) * (s + 1) * na * nb > 10000 * dot * dot
  IN IF na * nb = 0 THEN 0 ELSE IF dot < 0 THEN 0 - mag ELSE mag

\* The collection's own order, as if the sort were left out.
Unsorted(s) == s

\* Array.prototype.sort((a, b) => b.score - a.score): stable, descending.
\* x goes after every element whose score is at least its own.
RECURSIVE InsertByScore(_, _)
InsertByScore(s, x) ==
  IF s = <<>> THEN <<x>>
  ELSE IF Head(s).score >= x.score THEN <<Head(s)>> \o InsertByScore(Tail(s), x)
  ELSE <<x>> \o s

RECURSIVE SortByScoreDesc(_)
SortByScoreDesc(s) ==
  IF s = <<>> THEN <<>>
  ELSE InsertByScore(SortByScoreDesc(SubSeq(s, 1, Len(s) - 1)), s[Len(s)])

\* const scored = embeddings.map(e => ({score: cosine(qEmb, e.embedding), item: e})).sort(...)
Scored(qEmb, coll) ==
  SortByScoreDesc([i \in 1..Len(coll) |->
                     [score |-> cosine(qEmb, coll[i].embedding), item |-> coll[i]]])

\* s => ({dataset: s.item.dataset, clause_ref: s.item.id, excerpt: s.item.text, score: s.score})
ToClause(s) ==
  [dataset |-> s.item.dataset, clause_ref |-> s.item.id,
   excerpt |-> s.item.text, score |-> s.score]

MapToClause(s) == [i \in 1..Len(s) |-> ToClause(s[i])]

\* .slice(0, n)
Take(s, n) == SubSeq(s, 1, IF Len(s) < n THEN Len(s) ELSE n)

\* s => s.score >= MIN_SIMILARITY
AboveThreshold(s) == s.score >= MIN_SIMILARITY

\* The length filter without the trim.
LongEnoughUntrimmed(c) == c.excerpt # <<>> /\ Len(c.excerpt) > 10

\* c => c.excerpt && c.excerpt.trim().length > 10
LongEnough(c) == c.excerpt # <<>> /\ Len(Trim(c.excerpt)) > 10

\* The primary selection: threshold, first TOP_K, projection, length filter.
PrimaryClauses(scored) ==
  SelectSeq(MapToClause(Take(SelectSeq(scored, AboveThreshold), TOP_K)), LongEnough)

\* The selection without its fallback.
PrimaryOnly(scored) == PrimaryClauses(scored)

\* if (usedClauses.length === 0) usedClauses = scored.slice(0, TOP_K).map(...)
SelectClauses(scored) ==
  IF Len(PrimaryClauses(scored)) = 0 THEN MapToClause(Take(scored, TOP_K))
  ELSE PrimaryClauses(scored)

\* ------------------------------------------------------------ adjudication
\* The catch block's synthetic decision.
Fallback(parsedQuery, usedClauses) ==
  JObj([parsed_query |-> parsedQuery,
        decision |-> JObj([status |-> JStr("Pending"), amount |-> JNull,
                           justification |-> JStr("Could not parse LLM output")]),
        clauses_used |-> JArr(usedClauses)])

\* try { parsedQuery = JSON.parse(cleaned text) } catch { parsedQuery = {} }
ExtractParse(txt) ==
  LET p == JsonParse(Trim(StripFences(txt)))
  IN IF p.ok THEN p.val ELSE EmptyObj

\* try { finalJson = JSON.parse(txt.slice(txt.indexOf('{'))) } catch { fallback }
DecisionParse(txt, parsedQuery, usedClauses) ==
  LET cleaned == Trim(StripFences(txt))
      p == JsonParse(Slice(cleaned, IndexOf(cleaned, Ch("{"))))
  IN IF p.ok THEN p.val ELSE Fallback(parsedQuery, usedClauses)

\* The repair test without its empty-array half.
NeedsRepairMissingOnly(fj) == Falsy(GetProp(fj, "clauses_used"))

\* !finalJson.clauses_used || finalJson.clauses_used.length === 0
NeedsRepair(fj) ==
  \/ Falsy(GetProp(fj, "clauses_used"))
  \/ LengthIsZero(GetProp(fj, "clauses_used"))

\* if (NeedsRepair) finalJson.clauses_used = usedClauses, as [threw, val].
\* The file is an ES module, hence strict code: reading a property of null
\* throws, and so does creating a property on a primitive.  A property set on
\* an array is no part of its JSON form.
Repair(fj, usedClauses) ==
  IF fj.t \in {"null", "undefined"} THEN [threw |-> TRUE, val |-> fj]
  ELSE IF ~NeedsRepair(fj) THEN [threw |-> FALSE, val |-> fj]
  ELSE IF fj.t = "obj"
       THEN [threw |-> FALSE, val |-> SetProp(fj, "clauses_used", JArr(usedClauses))]
  ELSE IF fj.t = "arr" THEN [threw |-> FALSE, val |-> fj]
  ELSE [threw |-> TRUE, val |-> fj]

\* ------------------------------------------------------------------ inputs
Rep(n) == [i \in 1..n |-> Ch("a")]
\* Excerpts of 11 and of 10 characters once trimmed, both padded.
LongText == <<Ch(" ")>> \o Rep(11) \o <<Ch(" ")>>
ShortText == <<Ch(" "), Ch(" ")>> \o Rep(10) \o <<Ch(" ")>>

\* The fragments a collection is drawn from: text and embedding.
FragmentKinds ==
  { [text |-> LongText, embedding |-> <<1, 0>>],
    [text |-> ShortText, embedding |-> <<1, 0>>],
    [text |-> LongText, embedding |-> <<4, 15>>] }

\* The records {dataset, id, text, embedding} of embeddings.json, ids in order.
Collections(n) ==
  UNION { { [i \in 1..k |-> [dataset |-> "policy.pdf", id |-> i,
                             text |-> f[i].text, embedding |-> f[i].embedding]]
            : f \in [1..k -> FragmentKinds] } : k \in 0..n }

\* What the embedding model may return for a query.
QueryVectors == { <<1, 0>>, <<0, 1>>, <<-1, 0>> }

\* req.body.query
QueryValues == { JUndefined, JNull, JNum(42), JStr(""), JStr("knee surgery") }

Quoted(k, v) == <<StrLit(k), Ch(":")>> \o v
StatusObj(st) == <<Ch("{")>> \o Quoted("status", <<StrLit(st)>>) \o <<Ch(",")>>
                 \o Quoted("amount", <<Kw("null")>>) \o <<Ch("}")>>

\* Contents of the extraction completion: a fenced object, prose, and four
\* JSON texts that are no object.
ExtractObjectText ==
  <<Fence("json"), Ch("\n"), Ch("{")>> \o Quoted("age", <<Ch("4"), Ch("6")>>)
    \o <<Ch("}"), Ch("\n"), Fence("")>>
ExtractProseText == <<Kw("Sorry"), Ch(" "), Kw("what")>>
ExtractNumberText == <<Ch("4"), Ch("6")>>
ExtractNullText == <<Kw("null")>>
ExtractArrayText == <<Ch("["), StrLit("knee"), Ch("]")>>
ExtractStringText == <<StrLit("knee")>>
ExtractTexts ==
  { ExtractObjectText, ExtractProseText, ExtractNumberText, ExtractNullText,
    ExtractArrayText, ExtractStringText }

ClauseText == <<Ch("["), Ch("{")>> \o Quoted("clause_ref", <<Ch("1")>>) \o <<Ch("}"), Ch("]")>>
DecisionObj(st, rest) ==
  <<Ch("{")>> \o Quoted("decision", StatusObj(st)) \o rest \o <<Ch("}")>>

\* Contents of the adjudication completion.
\* Prose and a fence around a decision that lists a clause.
DecisionWithClauses ==
  <<Kw("Here"), Ch(":"), Ch(" "), Fence("json")>>
    \o DecisionObj("Approved", <<Ch(",")>> \o Quoted("clauses_used", ClauseText))
    \o <<Fence("")>>
DecisionEmptyClauses ==
  DecisionObj("Rejected", <<Ch(",")>> \o Quoted("clauses_used", <<Ch("["), Ch("]")>>))
DecisionNoClauses == DecisionObj("Pending", <<>>)
DecisionBadStatus == DecisionObj("Maybe", <<>>)
DecisionEmptyObject == <<Ch("{"), Ch("}")>>
\* Not JSON: with a brace, without one and ending in a letter, without one and
\* ending in a digit, empty, and a decision followed by prose.
GarbageWithBrace == <<Ch("{"), Ch(" "), Kw("oops")>>
GarbageNoBrace == <<Kw("I"), Ch(" "), Kw("cannot")>>
GarbageEndsInDigit == <<Kw("see"), Ch(" "), Kw("clause"), Ch(" "), Ch("5")>>
EmptyContent == <<>>
DecisionThenProse == DecisionObj("Approved", <<>>) \o <<Ch(" "), Kw("done")>>
DecisionTexts ==
  { DecisionWithClauses, DecisionEmptyClauses, DecisionNoClauses, DecisionBadStatus,
    DecisionEmptyObject, GarbageWithBrace, GarbageNoBrace, GarbageEndsInDigit,
    EmptyContent, DecisionThenProse }

\* ------------------------------------------------------------------- state
VARIABLES
  embeddings,     \* the collection loaded at startup
  embedder,       \* the process-wide model handle: 0 (null) or the instance
  pipelineCalls,  \* pipeline(...) calls started so far
  auditLog,       \* the QueryLog collection
  pending,        \* requests the clients have yet to send
  frame,          \* per request slot: the handler's position and locals
  response,       \* per request slot: what res sent
  calls           \* per request slot: downstream calls issued

vars == <<embeddings, embedder, pipelineCalls, auditLog, pending, frame, response, calls>>

Requests == 1..NumRequests

NewFrame ==
  [pc |-> "idle", query |-> JUndefined, parseResp |-> <<>>, parsedQuery |-> JUndefined,
   ticket |-> 0, model |-> 0, qEmb |-> <<>>, usedClauses |-> <<>>,
   decisionResp |-> <<>>, finalJson |-> JUndefined]

NoResponse == [status |-> 0, body |-> JUndefined]
ErrorBody(msg) == JObj([error |-> JStr(msg)])

InitWith(colls, n) ==
  /\ embeddings \in colls
  /\ embedder = 0
  /\ pipelineCalls = 0
  /\ auditLog = <<>>
  /\ pending = n
  /\ frame = [r \in Requests |-> NewFrame]
  /\ response = [r \in Requests |-> NoResponse]
  /\ calls = [r \in Requests |-> [completion |-> 0, embedding |-> 0, audit |-> 0]]

\* One client request against any collection of up to MaxFragments fragments.
Init == InitWith(Collections(MaxFragments), 1)

\* catch (err) { res.status(500).json({ error: err.message }) }
Catch(r, fr, msg) ==
  /\ frame' = [frame EXCEPT ![r] = [fr EXCEPT !.pc = "done"]]
  /\ response' = [response EXCEPT ![r] = [status |-> 500, body |-> ErrorBody(msg)]]

\* The validation without its typeof half.
InvalidFalsyOnly(query) == Falsy(query)

\* !query || typeof query !== 'string'
Invalid(query) == Falsy(query) \/ query.t # "str"

\* The handler up to its first await: validation, then the extraction call.
Receive(r) ==
  /\ pending > 0
  /\ frame[r].pc = "idle"
  /\ \A s \in 1..(r - 1) : frame[s].pc # "idle"
  /\ pending' = pending - 1
  /\ \E q \in QueryValues :
       IF Invalid(q)
       THEN /\ frame' = [frame EXCEPT ![r] = [@ EXCEPT !.pc = "done", !.query = q]]
            /\ response' = [response EXCEPT ![r] =
                 [status |-> 400, body |-> ErrorBody("query (string) is required")]]
            /\ calls' = calls
       ELSE /\ frame' = [frame EXCEPT ![r] = [@ EXCEPT !.pc = "extract", !.query = q]]
            /\ calls' = [calls EXCEPT ![r].completion = @ + 1]
            /\ response' = response
  /\ UNCHANGED <<embeddings, embedder, pipelineCalls, auditLog>>

\* The extraction completion settles: parse, then embedText -> loadEmbedder.
ExtractReturn(r) ==
  /\ frame[r].pc = "extract"
  /\ \/ \E txt \in ExtractTexts :
          LET fr == [frame[r] EXCEPT !.parseResp = txt, !.parsedQuery = ExtractParse(txt)]
          IN /\ calls' = [calls EXCEPT ![r].embedding = @ + 1]
             /\ response' = response
             /\ IF embedder = 0
                THEN /\ pipelineCalls' = pipelineCalls + 1
                     /\ frame' = [frame EXCEPT ![r] =
                          [fr EXCEPT !.pc = "loading", !.ticket = pipelineCalls + 1]]
                ELSE /\ pipelineCalls' = pipelineCalls
                     /\ frame' = [frame EXCEPT ![r] =
                          [fr EXCEPT !.pc = "embed", !.model = embedder]]
     \/ /\ Catch(r, frame[r], "completion failed")
        /\ UNCHANGED <<pipelineCalls, calls>>
  /\ UNCHANGED <<embeddings, embedder, auditLog, pending>>

\* pipeline(...) settles: embedder = the new instance, then model(text, ...).
PipelineReturn(r) ==
  /\ frame[r].pc = "loading"
  /\ \/ /\ Catch(r, frame[r], "pipeline failed")
        /\ embedder' = embedder
     \/ /\ embedder' = frame[r].ticket
        /\ frame' = [frame EXCEPT ![r] = [@ EXCEPT !.pc = "embed", !.model = frame[r].ticket]]
        /\ response' = response
  /\ UNCHANGED <<embeddings, pipelineCalls, auditLog, pending, calls>>

\* model(text) settles: score, select, build the prompt, call the adjudication.
EmbedReturn(r) ==
  /\ frame[r].pc = "embed"
  /\ \/ /\ Catch(r, frame[r], "embedding failed")
        /\ calls' = calls
     \/ \E v \in QueryVectors :
          /\ frame' = [frame EXCEPT ![r] =
               [@ EXCEPT !.pc = "decide", !.qEmb = v,
                         !.usedClauses = SelectClauses(Scored(v, embeddings))]]
          /\ calls' = [calls EXCEPT ![r].completion = @ + 1]
          /\ response' = response
  /\ UNCHANGED <<embeddings, embedder, pipelineCalls, auditLog, pending>>

\* The adjudication completion settles: parse or fall back, repair, start the save.
DecideReturn(r) ==
  /\ frame[r].pc = "decide"
  /\ \/ /\ Catch(r, frame[r], "completion failed")
        /\ calls' = calls
     \/ \E txt \in DecisionTexts :
          LET fj == DecisionParse(txt, frame[r].parsedQuery, frame[r].usedClauses)
              rep == Repair(fj, frame[r].usedClauses)
              fr == [frame[r] EXCEPT !.decisionResp = txt, !.finalJson = rep.val]
          IN IF rep.threw
             THEN /\ Catch(r, fr, "Cannot create property 'clauses_used'")
                  /\ calls' = calls
             ELSE /\ frame' = [frame EXCEPT ![r] = [fr EXCEPT !.pc = "save"]]
                  /\ calls' = [calls EXCEPT ![r].audit = @ + 1]
                  /\ response' = response
  /\ UNCHANGED <<embeddings, embedder, pipelineCalls, auditLog, pending>>

\* The document QueryLog.create is given.
AuditRecord(fr) ==
  [query |-> fr.query,
   parsed_query |-> GetProp(fr.finalJson, "parsed_query"),
   decision |-> GetProp(fr.finalJson, "decision"),
   clauses_used |-> GetProp(fr.finalJson, "clauses_used")]

\* QueryLog.create settles: res.json(finalJson), or the catch block.
SaveReturn(r) ==
  /\ frame[r].pc = "save"
  /\ \/ /\ Catch(r, frame[r], "audit store failed")
        /\ auditLog' = auditLog
     \/ /\ auditLog' = Append(auditLog, AuditRecord(frame[r]))
        /\ frame' = [frame EXCEPT ![r] = [@ EXCEPT !.pc = "done"]]
        /\ response' = [response EXCEPT ![r] = [status |-> 200, body |-> frame[r].finalJson]]
  /\ UNCHANGED <<embeddings, embedder, pipelineCalls, pending, calls>>

Next ==
  \E r \in Requests :
    \/ Receive(r)
    \/ ExtractReturn(r)
    \/ PipelineReturn(r)
    \/ EmbedReturn(r)
    \/ DecideReturn(r)
    \/ SaveReturn(r)

Spec == Init /\ [][Next]_vars

\* NumRequests clients at once, before an index was built (embeddings not found).
InitConcurrent == InitWith(Collections(0), NumRequests)
SpecConcurrent == InitConcurrent /\ [][Next]_vars

\* A request in flight at its model(text) await, the extraction having fallen
\* back to {} and the model loaded, against any collection of up to
\* MaxCollection fragments; the retrieval step is then applied.
InitRetrieval ==
  /\ embeddings \in Collections(MaxCollection)
  /\ embedder = 1
  /\ pipelineCalls = 1
  /\ auditLog = <<>>
  /\ pending = 0
  /\ frame = [r \in Requests |->
       IF r = 1
       THEN [NewFrame EXCEPT !.pc = "embed", !.query = JStr("knee surgery"),
                             !.parseResp = ExtractProseText, !.parsedQuery = EmptyObj,
                             !.ticket = 1, !.model = 1]
       ELSE NewFrame]
  /\ response = [r \in Requests |-> NoResponse]
  /\ calls = [r \in Requests |->
       [completion |-> IF r = 1 THEN 1 ELSE 0,
        embedding |-> IF r = 1 THEN 1 ELSE 0, audit |-> 0]]
NextRetrieval == \E r \in Requests : EmbedReturn(r)
SpecRetrieval == InitRetrieval /\ [][NextRetrieval]_vars


\* ------------------------------------------------------------------ claims
Range(f) == { f[i] : i \in DOMAIN f }
StatusValues == { JStr("Approved"), JStr("Rejected"), JStr("Pending") }
TypeErrorBody == ErrorBody("Cannot create property 'clauses_used'")

\* The audit save of request r was started: its DecisionResult is assembled.
Assembled(r) == calls[r].audit > 0
\* The adjudication completion of request r returned a text.
Adjudicated(r) ==
  /\ frame[r].pc \in {"save", "done"}
  /\ calls[r].completion = 2
  /\ response[r].body # ErrorBody("completion failed")
\* The retrieval step of request r has run.
Retrieved(r) == frame[r].qEmb # <<>>

\* C1: once the DecisionResult is assembled, a finished request has answered
\* with it as a success response, whatever the audit store did.
C1_AuditFailureStillAnswers ==
  \A r \in Requests :
    (frame[r].pc = "done" /\ Assembled(r))
      => response[r] = [status |-> 200, body |-> frame[r].finalJson]

\* C2: past the extraction stage the request has not ended in an error of the
\* extraction call, and an extraction text that is malformed or no JSON object
\* has left parsedQuery = {}.
C2_ExtractionFailureYieldsEmptyQuery ==
  \A r \in Requests :
    /\ ~(frame[r].pc = "done" /\ calls[r].completion = 1 /\ calls[r].embedding = 0)
    /\ (calls[r].embedding > 0 /\ frame[r].parseResp # ExtractObjectText)
         => frame[r].parsedQuery = EmptyObj

\* C3: an adjudication text that is not JSON leaves the synthetic fallback as
\* the result, and the request does not end in an error of the adjudication
\* stage.
NonJsonDecisionTexts ==
  { GarbageWithBrace, GarbageNoBrace, GarbageEndsInDigit, EmptyContent, DecisionThenProse }
C3_GarbageYieldsFallback ==
  \A r \in Requests :
    (Adjudicated(r) /\ frame[r].decisionResp \in NonJsonDecisionTexts)
      => /\ frame[r].finalJson = Fallback(frame[r].parsedQuery, frame[r].usedClauses)
         /\ response[r].body # TypeErrorBody

\* C4: the decision of every success response has one of the three statuses.
C4_StatusEnumerated ==
  \A r \in Requests :
    response[r].status = 200
      => GetProp(GetProp(response[r].body, "decision"), "status") \in StatusValues

\* C5: when the adjudication text carries no clauses_used or an empty one, or
\* is not JSON, the assembled, returned and logged clauses_used is the
\* evidence; and no success response has an empty or missing clauses_used
\* when evidence was supplied.
NoClausesDecisionTexts ==
  NonJsonDecisionTexts
    \cup { DecisionEmptyClauses, DecisionNoClauses, DecisionBadStatus, DecisionEmptyObject }
Frags == 1..Len(embeddings)
\* The score of every fragment against the query vector of request r.
FragScores(r) == [i \in Frags |-> cosine(frame[r].qEmb, embeddings[i].embedding)]
\* Under the scores sc, fragment j is ranked before fragment i: a higher
\* score, or the same score and an earlier place in the collection.
Ahead(sc, j, i) == sc[j] > sc[i] \/ (sc[j] = sc[i] /\ j < i)
TrimmedLen(txt) == Len(Trim(txt))
\* Fragment i survives the threshold, the truncation and the length filter.
Survives(sc, i) ==
  /\ sc[i] >= MIN_SIMILARITY
  /\ Cardinality({ j \in Frags : sc[j] >= MIN_SIMILARITY /\ Ahead(sc, j, i) }) < TOP_K
  /\ TrimmedLen(embeddings[i].text) >= 11

\* C6: the evidence never exceeds TOP_K clauses, and on the primary path every
\* clause scores at least MIN_SIMILARITY and has at least 11 trimmed characters.
C6_PrimaryEvidenceBounded ==
  \A r \in Requests :
    Retrieved(r) =>
      LET used == frame[r].usedClauses
          sc == FragScores(r)
      IN /\ Len(used) <= TOP_K
         /\ (\E i \in Frags : Survives(sc, i))
              => \A k \in 1..Len(used) :
                   used[k].score >= MIN_SIMILARITY /\ TrimmedLen(used[k].excerpt) >= 11
C6_Witness ==
  \E r \in Requests :
    /\ Retrieved(r)
    /\ Len(embeddings) > TOP_K
    /\ LET sc == FragScores(r)
       IN /\ \E i \in Frags : Survives(sc, i)
          /\ \E i \in Frags :
               sc[i] >= MIN_SIMILARITY /\ TrimmedLen(embeddings[i].text) < 11
    /\ Len(frame[r].usedClauses) \in 1..(TOP_K - 1)

\* C7: when every fragment scores below MIN_SIMILARITY the evidence is the
\* min(TOP_K, |collection|) highest-scoring fragments in descending score order.
AllBelow(sc) == \A i \in Frags : sc[i] < MIN_SIMILARITY
C7_FallbackTopK ==
  \A r \in Requests :
    Retrieved(r) =>
      LET used == frame[r].usedClauses
          sc == FragScores(r)
          n == IF Len(embeddings) < TOP_K THEN Len(embeddings) ELSE TOP_K
          refs == { used[k].clause_ref : k \in 1..Len(used) }
      IN AllBelow(sc) =>
           /\ Len(used) = n
           /\ Cardinality(refs) = n
           /\ \A k \in 1..Len(used) :
                /\ used[k].clause_ref \in Frags
                /\ used[k].score = sc[used[k].clause_ref]
                /\ used[k].excerpt = embeddings[used[k].clause_ref].text
                /\ used[k].dataset = embeddings[used[k].clause_ref].dataset
                /\ k > 1 => used[k - 1].score >= used[k].score
                /\ \A i \in Frags \ refs : sc[i] <= used[k].score
C7_Witness ==
  \E r \in Requests :
    /\ Retrieved(r)
    /\ Len(embeddings) > TOP_K
    /\ Len(frame[r].usedClauses) = TOP_K
    /\ LET sc == FragScores(r)
       IN /\ AllBelow(sc)
          /\ \E i, j \in Frags : i < j /\ sc[i] < sc[j]
    /\ \E k \in 1..TOP_K : TrimmedLen(frame[r].usedClauses[k].excerpt) < 11

\* C8: the evidence handed to adjudication is empty exactly when the collection
\* is empty, and in either case the request has gone on to adjudication.
C8_EvidenceEmptyIffCollectionEmpty ==
  \A r \in Requests :
    Retrieved(r) =>
      /\ (frame[r].usedClauses = <<>>) <=> (embeddings = <<>>)
      /\ frame[r].pc = "decide"
      /\ response[r] = NoResponse
      /\ calls[r].completion = 2
C8_Witness ==
  \E r \in Requests :
    /\ Retrieved(r)
    /\ LET sc == FragScores(r)
       IN /\ \E i \in Frags : sc[i] >= MIN_SIMILARITY
          /\ \A i \in Frags :
               sc[i] >= MIN_SIMILARITY => TrimmedLen(embeddings[i].text) < 11
    /\ frame[r].usedClauses # <<>>

\* C9: a request whose query is absent or no string is answered 400 with an
\* error field, and no completion, embedding or audit call is made for it.
C9_InvalidQueryRejected ==
  \A r \in Requests :
    (frame[r].pc # "idle" /\ frame[r].query.t # "str")
      => /\ frame[r].pc = "done"
         /\ response[r].status = 400
         /\ "error" \in DOMAIN response[r].body.obj
         /\ calls[r] = [completion |-> 0, embedding |-> 0, audit |-> 0]
         /\ frame[r].ticket = 0
C9_Witness ==
  \E r \in Requests :
    /\ frame[r].query = JNum(42)
    /\ response[r].status = 400

\* C10: no pipeline call is in progress beside another one, nor once the
\* model handle is set.
C10_SingleInitialization ==
  Cardinality({ r \in Requests : frame[r].pc = "loading" })
    + (IF embedder # 0 THEN 1 ELSE 0) <= 1

====
